---------------------------- MODULE Spec2Model ----------------------------
(***************************************************************************)
(* The train delivery planner: the route map (route_path.rs), the planner  *)
(* state and its successor function (model/state.rs) and the uniform-cost  *)
(* search that drives them (model.rs, Network::solve).                     *)
(*                                                                         *)
(* A network is a record                                                   *)
(*   [stations, routes, packages, trains]                                  *)
(* of sequences, in input order:                                           *)
(*   station  : a name                                                     *)
(*   route    : [name, from, to, travel_time]                              *)
(*   package  : [name, weight, from, to]                                   *)
(*   train    : [name, capacity, initial_station]                          *)
(* An action is [kind, package, station] with kind "Pick" or "Drop".       *)
(* A train state is [train, taken_actions]; a planner state is the         *)
(* sequence of train states, in fleet order.                               *)
(***************************************************************************)
EXTENDS Integers, Sequences, FiniteSets, TLC

VARIABLES
    net,          \* the input network (never changes after Init)
    route_map,    \* Rc<RouteMap>: built once by state::Network::new
    train_states, \* state::Network.train_states of the state being walked
    cost_sum,     \* sum of the edge costs along the walk so far
    panicked,     \* an unwrap() of None was hit
    to_see,       \* the search's open heap: a set of [cost, node]
    parents,      \* the search's visited map: node -> best known cost
    result,       \* what solve() ended with, [kind |-> "running"] before
    called        \* the last call of Train::take_action made on a train by itself

vars == <<net, route_map, train_states, cost_sum, panicked, to_see, parents, result, called>>

-----------------------------------------------------------------------------
(* Bounds of the inputs.                                                   *)

MaxWeight == 2

MaxTime == 2

\* The largest travel time of a route of the networks the router is run on.
MaxRouteTime == 3

\* The most actions a train is handed by itself.
MaxCalls == 3

-----------------------------------------------------------------------------
(* Generic helpers on sequences.                                           *)

Range(s) == {s[i] : i \in DOMAIN s}

Contains(s, x) == \E i \in DOMAIN s : s[i] = x

RECURSIVE SumSeq(_)
SumSeq(s) == IF s = <<>> THEN 0 ELSE Head(s) + SumSeq(Tail(s))

RECURSIVE Flatten(_)
Flatten(ss) == IF ss = <<>> THEN <<>> ELSE Head(ss) \o Flatten(Tail(ss))

RECURSIVE Unique(_)
Unique(s) ==
    IF s = <<>> THEN <<>>
    ELSE LET front == Unique(SubSeq(s, 1, Len(s) - 1))
             last  == s[Len(s)]
         IN  IF Contains(front, last) THEN front ELSE Append(front, last)

Reverse(s) == [i \in 1 .. Len(s) |-> s[Len(s) + 1 - i]]

MaxOf(S) == CHOOSE x \in S : \A y \in S : y <= x

MinOf(S) == CHOOSE x \in S : \A y \in S : x <= y

-----------------------------------------------------------------------------
(* Routes.                                                                 *)

\* args::Route::reverse: the endpoints swapped, name and travel time kept.
reverse(route) ==
    [name |-> route.name, from |-> route.to, to |-> route.from,
     travel_time |-> route.travel_time]

\* PartialEq for Route: two routes are equal when their names are.
route_eq(a, b) == a.name = b.name

\* The directed routes of the domain network: every input route followed by
\* its reverse.
directed_routes(network) ==
    Flatten([i \in 1 .. Len(network.routes) |->
                <<network.routes[i], reverse(network.routes[i])>>])

is_from(route, station) == route.from = station

is_to(route, station) == route.to = station

is_involve_station(route, station) == route.from = station \/ route.to = station

corresponding_station(route, station) ==
    IF route.from = station THEN route.to ELSE route.from

\* An identity route that takes a minute.
identity_taking_a_minute(station) ==
    [name |-> station \o "#id", from |-> station, to |-> station, travel_time |-> 1]

\* Route::identity / the "<station>#id" route of all_shortest_route_paths.
identity(station) ==
    [name |-> station \o "#id", from |-> station, to |-> station, travel_time |-> 0]

routes_from(routes, station) ==
    SelectSeq(routes, LAMBDA r : is_involve_station(r, station))

\* Network::reachable_stations: (neighbour, travel time) per involved route.
reachable_stations(routes, station) ==
    LET involved == routes_from(routes, station)
    IN  [i \in 1 .. Len(involved) |->
            <<corresponding_station(involved[i], station), involved[i].travel_time>>]

-----------------------------------------------------------------------------
(* The all-pairs router (route_path.rs).                                   *)

\* One relaxation of pathfinding's dijkstra loop: the successor `succ` of the
\* popped node, reached at `new_cost`. st = [to_see, parents]; parents maps a
\* seen station to [parent, cost].
relax(st, node, succ, new_cost) ==
    IF succ \notin DOMAIN st.parents
    THEN [to_see  |-> st.to_see \cup {<<new_cost, succ>>},
          parents |-> [n \in DOMAIN st.parents \cup {succ} |->
                          IF n = succ THEN [parent |-> node, cost |-> new_cost]
                          ELSE st.parents[n]]]
    ELSE IF st.parents[succ].cost > new_cost
    THEN [to_see  |-> st.to_see \cup {<<new_cost, succ>>},
          parents |-> [st.parents EXCEPT ![succ] = [parent |-> node, cost |-> new_cost]]]
    ELSE st

RECURSIVE relax_all(_, _, _, _)
relax_all(st, node, cost, succs) ==
    IF succs = <<>> THEN st
    ELSE relax_all(relax(st, node, Head(succs)[1], cost + Head(succs)[2]),
                   node, cost, Tail(succs))

\* pathfinding::dijkstra_all(from, |to| self.reachable_stations(to)): the
\* parent and the minimum cost of every station reachable from `from`,
\* `from` itself left out.
RECURSIVE dijkstra_loop(_, _)
dijkstra_loop(routes, st) ==
    IF st.to_see = {} THEN st.parents
    ELSE LET top  == CHOOSE e \in st.to_see : \A f \in st.to_see : e[1] <= f[1]
             rest == [st EXCEPT !.to_see = st.to_see \ {top}]
         IN  IF top[1] > st.parents[top[2]].cost
             THEN dijkstra_loop(routes, rest)
             ELSE dijkstra_loop(routes,
                      relax_all(rest, top[2], top[1], reachable_stations(routes, top[2])))

dijkstra_all(routes, from) ==
    LET all == dijkstra_loop(routes,
                   [to_see  |-> {<<0, from>>},
                    parents |-> (from :> [parent |-> from, cost |-> 0])])
    IN  [n \in DOMAIN all \ {from} |-> all[n]]

\* pathfinding::build_path(to, &reachable_stations): the stations from the
\* source to `to`, following the parents.
RECURSIVE build_path(_, _)
build_path(to, reached) ==
    IF to \notin DOMAIN reached THEN <<to>>
    ELSE Append(build_path(reached[to].parent, reached), to)

\* The first route of all_routes, in list order, that leads from `from` to `to`.
find_route(all_routes, from, to) ==
    all_routes[MinOf({i \in DOMAIN all_routes :
                        is_from(all_routes[i], from) /\ is_to(all_routes[i], to)})]

\* RoutePath::try_from((stations, all_routes)).
try_from(stations, all_routes) ==
    [station_pair |-> <<stations[1], stations[Len(stations)]>>,
     routes       |-> [i \in 1 .. Len(stations) - 1 |->
                          find_route(all_routes, stations[i], stations[i + 1])]]

\* Network::shortest_route_paths(from): one RoutePath per reachable station.
shortest_route_paths(routes, from) ==
    LET reached == dijkstra_all(routes, from)
    IN  {try_from(build_path(to, reached), routes) : to \in DOMAIN reached}

\* No identity paths at all.
self_route_paths_none(network) == {}

\* Network::all_shortest_route_paths: the identity paths, then the others.
self_route_paths(network) ==
    {[station_pair |-> <<s, s>>, routes |-> <<identity(s)>>] :
        s \in Range(network.stations)}

\* The paths that the shortest-path computation finds from every station.
out_route_paths(network) ==
    UNION {shortest_route_paths(directed_routes(network), s) :
              s \in Range(network.stations)}

all_shortest_route_paths(network) ==
    self_route_paths(network) \cup out_route_paths(network)

\* Network::all_shortest_route_paths_map: keyed by station pair. The map is
\* collected from the list of paths, so for a pair that occurs twice the
\* later path, one of out_route_paths, replaces the identity path.
all_shortest_route_paths_map(network) ==
    LET self == self_route_paths(network)
        out  == out_route_paths(network)
    IN  [pair \in {p.station_pair : p \in all_shortest_route_paths(network)} |->
            IF \E p \in out : p.station_pair = pair
            THEN CHOOSE p \in out : p.station_pair = pair
            ELSE CHOOSE p \in self : p.station_pair = pair]

\* RoutePath::travel_time (total_duration_mins): the sum over its routes.
travel_time(route_path) ==
    SumSeq([i \in 1 .. Len(route_path.routes) |-> route_path.routes[i].travel_time])

-----------------------------------------------------------------------------
(* The action alphabet (model.rs, Package::actions).                       *)

Pick(package) == [kind |-> "Pick", package |-> package, station |-> package.from]

Drop(package) == [kind |-> "Drop", package |-> package, station |-> package.to]

\* Package::actions: the Pick at the pickup station, then the Drop.
actions(package) == <<Pick(package), Drop(package)>>

\* The required actions of a network: each package's actions, in input order.
required_actions(network) ==
    Flatten([i \in 1 .. Len(network.packages) |-> actions(network.packages[i])])

-----------------------------------------------------------------------------
(* The train state (state.rs, impl Train).                                 *)

\* Train::current_packages: the picked packages that are not among the dropped.
current_packages(train_state) ==
    LET picked  == SelectSeq(train_state.taken_actions, LAMBDA a : a.kind = "Pick")
        dropped == SelectSeq(train_state.taken_actions, LAMBDA a : a.kind = "Drop")
        held    == SelectSeq(picked,
                       LAMBDA a : ~ \E i \in DOMAIN dropped : dropped[i].package = a.package)
    IN  [i \in 1 .. Len(held) |-> held[i].package]

\* Train::current_weight.
current_weight(train_state) ==
    LET held == current_packages(train_state)
    IN  SumSeq([i \in 1 .. Len(held) |-> held[i].weight])

\* A can_pick that forgets the room check.
can_pick_without_room_check(train_state, package, rm) ==
    <<train_state.train.initial_station, package.from>> \in DOMAIN rm

\* A can_pick that wants room to spare: weight equal to the room left is refused.
can_pick_strict_room(train_state, package, rm) ==
    /\ <<train_state.train.initial_station, package.from>> \in DOMAIN rm
    /\ package.weight + current_weight(train_state) < train_state.train.capacity

\* Train::can_pick.
can_pick(train_state, package, rm) ==
    LET is_route_exist ==
            <<train_state.train.initial_station, package.from>> \in DOMAIN rm
        is_enough_room ==
            package.weight + current_weight(train_state) <= train_state.train.capacity
    IN  is_route_exist /\ is_enough_room

\* A can_drop that allows every Drop.
can_drop_unconditional(train_state, package) == TRUE

\* Train::can_drop: some taken action is a Pick of the package.
can_drop(train_state, package) ==
    \E i \in DOMAIN train_state.taken_actions :
        /\ train_state.taken_actions[i].kind = "Pick"
        /\ train_state.taken_actions[i].package = package

\* Train::can_take.
can_take(train_state, action, rm) ==
    IF action.kind = "Pick"
    THEN can_pick(train_state, action.package, rm)
    ELSE can_drop(train_state, action.package)

\* A take_action that pushes the action without asking can_take.
take_action_unchecked(train_state, action, rm) ==
    [train_state EXCEPT !.taken_actions = Append(@, action)]

\* A take_action that starts the history over with the action.
take_action_forgets_history(train_state, action, rm) ==
    IF can_take(train_state, action, rm)
    THEN [train_state EXCEPT !.taken_actions = <<action>>]
    ELSE train_state

\* Train::take_action: the action is pushed only when the train can take it.
take_action(train_state, action, rm) ==
    IF can_take(train_state, action, rm)
    THEN [train_state EXCEPT !.taken_actions = Append(@, action)]
    ELSE train_state

\* Train::available_actions: the given actions the train can take, in order.
train_available_actions(train_state, acts, rm) ==
    SelectSeq(acts, LAMBDA a : can_take(train_state, a, rm))

\* A chain in which every path starts at the train's initial station.
route_pairs_from_initial_station(train_state) ==
    [i \in 1 .. Len(train_state.taken_actions) |->
        <<train_state.train.initial_station, train_state.taken_actions[i].station>>]

\* The (from, to) pairs of Train::route_paths: from the initial station
\* through the station of every taken action.
route_pairs(train_state) ==
    LET taken == train_state.taken_actions
    IN  [i \in 1 .. Len(taken) |->
            <<IF i = 1 THEN train_state.train.initial_station ELSE taken[i - 1].station,
              taken[i].station>>]

\* Whether route_paths would unwrap a missing RouteMap entry.
route_paths_panics(train_state, rm) ==
    \E i \in DOMAIN route_pairs(train_state) :
        route_pairs(train_state)[i] \notin DOMAIN rm

\* Train::route_paths: the RoutePath of every pair of the chain.
route_paths(train_state, rm) ==
    LET pairs == route_pairs(train_state)
    IN  [i \in 1 .. Len(pairs) |-> rm[pairs[i]]]

\* A travel_time_used that counts only the last route path of the chain.
train_travel_time_of_last_path(train_state, rm) ==
    LET pairs == route_pairs(train_state)
    IN  IF pairs = <<>> THEN 0 ELSE travel_time(rm[pairs[Len(pairs)]])

\* Train::travel_time_used: the sum of the travel times of the chain.
train_travel_time_used(train_state, rm) ==
    LET paths == route_paths(train_state, rm)
    IN  SumSeq([i \in 1 .. Len(paths) |-> travel_time(paths[i])])

-----------------------------------------------------------------------------
(* The planner state (state.rs, impl Network).                             *)

\* Network::new: every train with an empty history, in fleet order.
new(network) ==
    [i \in 1 .. Len(network.trains) |->
        [train |-> network.trains[i], taken_actions |-> <<>>]]

\* Network::taken_actions: the histories of all trains, concatenated.
taken_actions(states) ==
    Flatten([i \in 1 .. Len(states) |-> states[i].taken_actions])

\* An untaken_actions that forgets what was taken.
untaken_actions_all_required(states, network) == required_actions(network)

\* Network::untaken_actions: the required actions not yet taken, in order.
untaken_actions(states, network) ==
    LET taken == taken_actions(states)
    IN  SelectSeq(required_actions(network), LAMBDA a : ~ Contains(taken, a))

\* Network::available_actions: what some train can take next, without repeats.
available_actions(states, network, rm) ==
    LET untaken == untaken_actions(states, network)
    IN  Unique(Flatten([i \in 1 .. Len(states) |->
                           train_available_actions(states[i], untaken, rm)]))

\* Network::is_success.
is_success(states, network, rm) == available_actions(states, network, rm) = <<>>

\* A travel_time_used that adds the trains' travel times up.
travel_time_used_summed(states, rm) ==
    SumSeq([i \in 1 .. Len(states) |-> train_travel_time_used(states[i], rm)])

\* Network::travel_time_used: the maximum over the trains.
travel_time_used(states, rm) ==
    MaxOf({train_travel_time_used(states[i], rm) : i \in DOMAIN states})

\* An edge cost that forgets to subtract the current state's time.
edge_cost_not_subtracted(new_time, old_time) == new_time

\* The edge cost of take_available_actions: new_state.travel_time_used() -
\* travel_time_used, an unsigned subtraction. A negative value here stands for
\* the underflow of that subtraction.
edge_cost(new_time, old_time) == new_time - old_time

\* The train states of the successors of take_available_actions, in the order
\* it yields them: for each train, for each action available to it, the
\* current state with that action taken by that train.
successor_states(states, network, rm) ==
    LET untaken == untaken_actions(states, network)
        of(index) ==
            LET avail == train_available_actions(states[index], untaken, rm)
            IN  [k \in 1 .. Len(avail) |->
                    [states EXCEPT ![index] = take_action(states[index], avail[k], rm)]]
    IN  Flatten([index \in 1 .. Len(states) |-> of(index)])

\* Whether take_available_actions unwraps a missing RouteMap entry while it
\* measures a successor (Train::route_paths, route_map.get(..).unwrap()).
unwraps_none(states, network, rm) ==
    LET succs == successor_states(states, network, rm)
    IN  \E k \in DOMAIN succs :
            \E i \in DOMAIN succs[k] : route_paths_panics(succs[k][i], rm)

\* Whether the subtraction of some successor's edge cost underflows.
underflows(states, network, rm) ==
    LET succs == successor_states(states, network, rm)
    IN  \E k \in DOMAIN succs :
            edge_cost(travel_time_used(succs[k], rm), travel_time_used(states, rm)) < 0

\* Whether take_available_actions fails instead of returning.
take_available_actions_panics(states, network, rm) ==
    unwraps_none(states, network, rm) \/ underflows(states, network, rm)

\* Network::take_available_actions: every successor with its edge cost.
take_available_actions(states, network, rm) ==
    LET succs == successor_states(states, network, rm)
        used  == travel_time_used(states, rm)
    IN  [k \in 1 .. Len(succs) |->
            [state |-> succs[k],
             cost  |-> edge_cost(travel_time_used(succs[k], rm), used)]]

-----------------------------------------------------------------------------
(* The instruction synthesizer (state.rs, Train::instructions).            *)

Instruction(begin_at, train, route, picked, dropped) ==
    [begin_at |-> begin_at, train |-> train, route |-> route,
     picked_package |-> picked, dropped_package |-> dropped]

\* A sub_instructions that lets the instruction of a Pick stand for the last
\* route of the path instead of following it.
sub_instructions_pick_replaces_last(train_state, route_path, action, begin_at) ==
    LET routes   == route_path.routes
        start(i) == begin_at + SumSeq([j \in 1 .. i - 1 |-> routes[j].travel_time])
        kept     == IF action.kind = "Pick" THEN Len(routes) - 1 ELSE Len(routes)
        moves    == [i \in 1 .. kept |->
                        Instruction(start(i), train_state.train, routes[i], <<>>,
                                    IF i = Len(routes) /\ action.kind = "Drop"
                                    THEN <<action.package>> ELSE <<>>)]
    IN  IF action.kind = "Pick"
        THEN Append(moves,
                    Instruction(start(Len(routes) + 1), train_state.train,
                                identity(action.station), <<action.package>>, <<>>))
        ELSE moves

\* A sub_instructions that tags every route of the path of a Drop with the
\* dropped package, not only the last one.
sub_instructions_drop_on_every_route(train_state, route_path, action, begin_at) ==
    LET routes   == route_path.routes
        start(i) == begin_at + SumSeq([j \in 1 .. i - 1 |-> routes[j].travel_time])
        moves    == [i \in 1 .. Len(routes) |->
                        Instruction(start(i), train_state.train, routes[i], <<>>,
                                    IF action.kind = "Drop"
                                    THEN <<action.package>> ELSE <<>>)]
    IN  IF action.kind = "Pick"
        THEN Append(moves,
                    Instruction(start(Len(routes) + 1), train_state.train,
                                identity(action.station), <<action.package>>, <<>>))
        ELSE moves

\* A sub_instructions that forgets to tag the instruction of a Pick.
sub_instructions_untagged_pick(train_state, route_path, action, begin_at) ==
    LET routes   == route_path.routes
        start(i) == begin_at + SumSeq([j \in 1 .. i - 1 |-> routes[j].travel_time])
        moves    == [i \in 1 .. Len(routes) |->
                        Instruction(start(i), train_state.train, routes[i], <<>>,
                                    IF i = Len(routes) /\ action.kind = "Drop"
                                    THEN <<action.package>> ELSE <<>>)]
    IN  IF action.kind = "Pick"
        THEN Append(moves,
                    Instruction(start(Len(routes) + 1), train_state.train,
                                identity(action.station), <<>>, <<>>))
        ELSE moves

\* Train::sub_instructions: one instruction per route of the path, the last
\* one tagged with the dropped package; a Pick adds an instruction on the
\* identity route of its station, after the moves.
sub_instructions(train_state, route_path, action, begin_at) ==
    LET routes   == route_path.routes
        start(i) == begin_at + SumSeq([j \in 1 .. i - 1 |-> routes[j].travel_time])
        moves    == [i \in 1 .. Len(routes) |->
                        Instruction(start(i), train_state.train, routes[i], <<>>,
                                    IF i = Len(routes) /\ action.kind = "Drop"
                                    THEN <<action.package>> ELSE <<>>)]
    IN  IF action.kind = "Pick"
        THEN Append(moves,
                    Instruction(start(Len(routes) + 1), train_state.train,
                                identity(action.station), <<action.package>>, <<>>))
        ELSE moves

\* Instruction::combine: an instruction that stands still (an identity route)
\* and drops nothing is folded into the instruction that follows it from the
\* same station; any other pair is kept as it is.
combine(last, next) ==
    IF /\ last.route.from = last.route.to
       /\ last.route.travel_time = 0
       /\ last.route.to = next.route.from
       /\ last.dropped_package = <<>>
    THEN <<Instruction(last.begin_at, last.train, next.route,
                       last.picked_package \o next.picked_package,
                       next.dropped_package)>>
    ELSE <<last, next>>

\* A clock that only counts the path before the k-th one.
begin_time_of_previous_path(paths, k) ==
    IF k = 1 THEN 0 ELSE travel_time(paths[k - 1])

\* The begin time of the k-th (route path, action) pair of a train.
begin_time(paths, k) == SumSeq([j \in 1 .. k - 1 |-> travel_time(paths[j])])

\* The fold of Train::instructions: the last instruction kept so far is
\* combined with the next one.
RECURSIVE fold_combine(_, _)
fold_combine(acc, rest) ==
    IF rest = <<>> THEN acc
    ELSE IF acc = <<>> THEN fold_combine(<<Head(rest)>>, Tail(rest))
    ELSE fold_combine(SubSeq(acc, 1, Len(acc) - 1) \o combine(acc[Len(acc)], Head(rest)),
                      Tail(rest))

\* The instructions of a train before they are combined.
raw_instructions(train_state, rm) ==
    LET paths == route_paths(train_state, rm)
    IN  Flatten([k \in 1 .. Len(paths) |->
                    sub_instructions(train_state, paths[k],
                                     train_state.taken_actions[k], begin_time(paths, k))])

\* Train::instructions.
train_instructions(train_state, rm) == fold_combine(<<>>, raw_instructions(train_state, rm))

\* Network::instructions: train after train, in fleet order.
instructions(states, rm) ==
    Flatten([i \in 1 .. Len(states) |-> train_instructions(states[i], rm)])

-----------------------------------------------------------------------------
(* The planner of model.rs (mod state), which keeps no feasibility check.  *)
(* Its routes are the records used above, duration_mins being travel_time. *)

\* The identity path of model.rs, all_shortest_route_paths: route "iden#<station>".
iden(station) ==
    [name |-> "iden#" \o station, from |-> station, to |-> station, travel_time |-> 0]

\* RoutePath::try_from of model.rs: for every pair of neighbouring stations
\* the first listed route that involves both.
involving_route(all_routes, from, to) ==
    all_routes[MinOf({i \in DOMAIN all_routes :
                        /\ is_involve_station(all_routes[i], from)
                        /\ is_involve_station(all_routes[i], to)})]

model_try_from(stations, all_routes) ==
    [station_pair |-> <<stations[1], stations[Len(stations)]>>,
     routes       |-> [i \in 1 .. Len(stations) - 1 |->
                          involving_route(all_routes, stations[i], stations[i + 1])]]

\* Network::shortest_route_paths of model.rs, over the routes as listed.
model_shortest_route_paths(network, from) ==
    LET reached == dijkstra_all(network.routes, from)
    IN  {model_try_from(build_path(to, reached), network.routes) : to \in DOMAIN reached}

\* Network::all_shortest_route_paths_map of model.rs: the identity paths,
\* then the paths found from every station, collected into a map.
optimal_route_paths_map(network) ==
    LET self == {[station_pair |-> <<s, s>>, routes |-> <<iden(s)>>] :
                    s \in Range(network.stations)}
        out  == UNION {model_shortest_route_paths(network, s) : s \in Range(network.stations)}
    IN  [pair \in {p.station_pair : p \in self \cup out} |->
            IF \E p \in out : p.station_pair = pair
            THEN CHOOSE p \in out : p.station_pair = pair
            ELSE CHOOSE p \in self : p.station_pair = pair]

\* Network::possible_actions: the actions of every package, as a hash set.
possible_actions(network) == Range(required_actions(network))

\* The orders in which a hash set may be iterated.
IterationOrders(S) == {order \in [1 .. Cardinality(S) -> S] : Range(order) = S}

\* state::Network::taken_actions of model.rs, as a hash set.
model_taken_actions(states) == Range(taken_actions(states))

\* Ord for Action: a Pick is less than a Drop, actions of one kind are equal.
\* The least action of a run of actions of one package is therefore its Pick
\* when the run holds one, and else its first action.
least_action(run) ==
    IF \E i \in DOMAIN run : run[i].kind = "Pick"
    THEN run[MinOf({i \in DOMAIN run : run[i].kind = "Pick"})]
    ELSE run[1]

\* state::Network::available_actions of model.rs: the possible actions not
\* taken, in the iteration order of the set, grouped into runs of neighbours
\* of one package, the least action of every run.
model_available_actions(order) ==
    LET starts    == SelectSeq([k \in 1 .. Len(order) |-> k],
                         LAMBDA k : k = 1 \/ order[k - 1].package # order[k].package)
        end_of(n) == IF n = Len(starts) THEN Len(order) ELSE starts[n + 1] - 1
    IN  [n \in 1 .. Len(starts) |-> least_action(SubSeq(order, starts[n], end_of(n)))]

\* state::Train::take_action of model.rs: the action is pushed, whatever it is.
model_take_action(train_state, action) ==
    [train_state EXCEPT !.taken_actions = Append(@, action)]

\* state::Train::optimal_route_paths of model.rs.
optimal_route_paths(train_state, rm) ==
    LET taken == train_state.taken_actions
        froms == <<train_state.train.initial_station>>
                     \o [i \in 1 .. Len(taken) - 1 |-> taken[i].station]
    IN  [i \in 1 .. Len(taken) |-> rm[<<froms[i], taken[i].station>>]]

\* Whether optimal_route_paths would unwrap a missing map entry.
optimal_route_paths_panics(train_state, rm) ==
    LET taken == train_state.taken_actions
    IN  \E i \in DOMAIN taken :
            <<IF i = 1 THEN train_state.train.initial_station ELSE taken[i - 1].station,
              taken[i].station>> \notin DOMAIN rm

\* state::Train::optimal_duration_mins of model.rs.
train_optimal_duration_mins(train_state, rm) ==
    LET paths == optimal_route_paths(train_state, rm)
    IN  SumSeq([i \in 1 .. Len(paths) |-> travel_time(paths[i])])

\* state::Network::optimal_duration_mins of model.rs: the maximum over the trains.
optimal_duration_mins(states, rm) ==
    MaxOf({train_optimal_duration_mins(states[i], rm) : i \in DOMAIN states})

\* The train states of state::Network::action_successor_states: the action
\* committed to every train in turn.
action_successor_train_states(states, action) ==
    [index \in 1 .. Len(states) |->
        [states EXCEPT ![index] = model_take_action(states[index], action)]]

\* The train states of state::Network::successor_states of model.rs.
successor_train_states(states, order) ==
    LET avail == model_available_actions(order)
    IN  Flatten([k \in 1 .. Len(avail) |-> action_successor_train_states(states, avail[k])])

\* Whether successor_states fails while it measures a successor.
model_successor_states_panics(states, rm, order) ==
    LET succs == successor_train_states(states, order)
    IN  \E k \in DOMAIN succs :
            \E i \in DOMAIN succs[k] : optimal_route_paths_panics(succs[k][i], rm)

\* state::Network::successor_states of model.rs: every successor with the
\* minutes it adds.
model_successor_states(states, rm, order) ==
    LET succs == successor_train_states(states, order)
        used  == optimal_duration_mins(states, rm)
    IN  [k \in 1 .. Len(succs) |->
            [state |-> succs[k], cost |-> optimal_duration_mins(succs[k], rm) - used]]

-----------------------------------------------------------------------------
(* The search driver (model.rs, Network::solve): pathfinding::dijkstra     *)
(* from Network::new, expanding with take_available_actions and stopping   *)
(* at the first popped state for which is_success holds.                   *)

\* One successor met while a popped node is expanded. st = [to_see, parents].
visit(st, succ, new_cost) ==
    IF succ \notin DOMAIN st.parents
    THEN [to_see  |-> st.to_see \cup {[cost |-> new_cost, node |-> succ]},
          parents |-> [n \in DOMAIN st.parents \cup {succ} |->
                          IF n = succ THEN new_cost ELSE st.parents[n]]]
    ELSE IF st.parents[succ] > new_cost
    THEN [to_see  |-> st.to_see \cup {[cost |-> new_cost, node |-> succ]},
          parents |-> [st.parents EXCEPT ![succ] = new_cost]]
    ELSE st

RECURSIVE visit_all(_, _, _)
visit_all(st, cost, succs) ==
    IF succs = <<>> THEN st
    ELSE visit_all(visit(st, Head(succs).state, cost + Head(succs).cost),
                   cost, Tail(succs))

Running == [kind |-> "running", state |-> <<>>, cost |-> 0]

\* The search has popped a state that is_success accepts.
Found(state, cost) == [kind |-> "found", state |-> state, cost |-> cost]

\* The open heap ran empty: dijkstra returns None and solve's unwrap fails.
Infeasible == [kind |-> "infeasible", state |-> <<>>, cost |-> 0]

\* An unwrap inside take_available_actions failed.
Panic == [kind |-> "panic", state |-> <<>>, cost |-> 0]

\* One turn of the loop of pathfinding::dijkstra with `top` popped.
\* sr = [to_see, parents, result].
dijkstra_step(sr, top, network, rm) ==
    LET rest == [to_see |-> sr.to_see \ {top}, parents |-> sr.parents]
    IN  IF is_success(top.node, network, rm)
        THEN [to_see |-> rest.to_see, parents |-> rest.parents,
              result |-> Found(top.node, sr.parents[top.node])]
        ELSE IF top.cost > sr.parents[top.node]
        THEN [to_see |-> rest.to_see, parents |-> rest.parents, result |-> Running]
        ELSE IF take_available_actions_panics(top.node, network, rm)
        THEN [to_see |-> rest.to_see, parents |-> rest.parents, result |-> Panic]
        ELSE LET st == visit_all(rest, top.cost,
                                 take_available_actions(top.node, network, rm))
             IN  [to_see |-> st.to_see, parents |-> st.parents, result |-> Running]

\* A heap that pops any of its entries, whatever its cost.
pop_any(open) == open

\* The entries the heap may pop next: those of least cost.
cheapest(open) == {e \in open : \A f \in open : e.cost <= f.cost}

\* Network::solve run to its end, the heap's ties broken by CHOOSE.
RECURSIVE run_dijkstra(_, _, _)
run_dijkstra(sr, network, rm) ==
    IF sr.result.kind # "running" THEN sr.result
    ELSE IF sr.to_see = {} THEN Infeasible
    ELSE run_dijkstra(
             dijkstra_step(sr, CHOOSE e \in cheapest(sr.to_see) : TRUE, network, rm),
             network, rm)

solve_start(network) ==
    [to_see  |-> {[cost |-> 0, node |-> new(network)]},
     parents |-> (new(network) :> 0),
     result  |-> Running]

solve(network) ==
    run_dijkstra(solve_start(network), network, all_shortest_route_paths_map(network))

-----------------------------------------------------------------------------
(* Building the domain network from the parsed input (model.rs,            *)
(* TryFrom<args::Network> for Network). A result is [ok |-> TRUE, value]   *)
(* or [ok |-> FALSE, error].                                               *)

Ok(value) == [ok |-> TRUE, value |-> value]

Err(error) == [ok |-> FALSE, error |-> error]

\* A find_station that resolves every name.
find_station_any_name(stations, station_name) == Ok(station_name)

\* find_station: the first station of the list with that name.
find_station(stations, station_name) ==
    LET matches == {i \in DOMAIN stations : stations[i] = station_name}
    IN  IF matches = {}
        THEN Err("station not found: " \o station_name)
        ELSE Ok(stations[MinOf(matches)])

\* TryFrom<(args::Route, &[Station])> for Route: from is resolved before to.
route_try_from(route, stations) ==
    LET from == find_station(stations, route.from)
        to   == find_station(stations, route.to)
    IN  IF ~ from.ok THEN from
        ELSE IF ~ to.ok THEN to
        ELSE Ok([route EXCEPT !.from = from.value, !.to = to.value])

\* TryFrom<(args::Package, &[Station])> for Package.
package_try_from(package, stations) ==
    LET from == find_station(stations, package.from)
        to   == find_station(stations, package.to)
    IN  IF ~ from.ok THEN from
        ELSE IF ~ to.ok THEN to
        ELSE Ok([package EXCEPT !.from = from.value, !.to = to.value])

\* TryFrom<(args::Train, &[Station])> for Train.
train_try_from(train, stations) ==
    LET initial_station == find_station(stations, train.initial_station)
    IN  IF ~ initial_station.ok THEN initial_station
        ELSE Ok([train EXCEPT !.initial_station = initial_station.value])

\* collect::<Result<Vec<_>>>(): the values, or the first error in list order.
collect(results) ==
    LET failed == {i \in DOMAIN results : ~ results[i].ok}
    IN  IF failed = {}
        THEN Ok([i \in 1 .. Len(results) |-> results[i].value])
        ELSE results[MinOf(failed)]

\* TryFrom<args::Network> for Network: routes, then packages, then trains.
network_try_from(input) ==
    LET stations == input.stations
        routes   == collect([i \in 1 .. Len(input.routes) |->
                                route_try_from(input.routes[i], stations)])
        packages == collect([i \in 1 .. Len(input.packages) |->
                                package_try_from(input.packages[i], stations)])
        trains   == collect([i \in 1 .. Len(input.trains) |->
                                train_try_from(input.trains[i], stations)])
    IN  IF ~ routes.ok THEN routes
        ELSE IF ~ packages.ok THEN packages
        ELSE IF ~ trains.ok THEN trains
        ELSE Ok([stations |-> stations, routes |-> routes.value,
                 packages |-> packages.value, trains |-> trains.value])

\* The input has been parsed and the network is not built yet.
Unbuilt == [kind |-> "unbuilt", state |-> <<>>, cost |-> 0]

\* Construction failed: the program ends with this error.
BuildError(error) == [kind |-> "error", state |-> <<>>, cost |-> 0, message |-> error]

-----------------------------------------------------------------------------
(* The input networks.                                                     *)

Route(name, from, to, time) ==
    [name |-> name, from |-> from, to |-> to, travel_time |-> time]

Package(name, weight, from, to) ==
    [name |-> name, weight |-> weight, from |-> from, to |-> to]

Train(name, capacity, station) ==
    [name |-> name, capacity |-> capacity, initial_station |-> station]

Network(stations, routes, packages, trains) ==
    [stations |-> stations, routes |-> routes, packages |-> packages, trains |-> trains]

Times == 1 .. MaxTime

Weights == 1 .. MaxWeight

\* Three stations: one route (C on its own), a line, two routes between the
\* same two stations, and a triangle.
RouteLists ==
    {<<Route("AB", "A", "B", t)>> : t \in Times}
    \cup {<<Route("AB", "A", "B", t[1]), Route("BC", "B", "C", t[2])>> : t \in Times \X Times}
    \cup {<<Route("AB1", "A", "B", t[1]), Route("AB2", "A", "B", t[2])>> : t \in Times \X Times}
    \cup {<<Route("AB", "A", "B", 1), Route("BC", "B", "C", 1), Route("CA", "C", "A", t)>> :
             t \in Times}

FirstPackages ==
    {Package("P1", w, e[1], e[2]) :
        w \in Weights, e \in {<<"A", "B">>, <<"B", "A">>, <<"B", "C">>, <<"C", "C">>}}

SecondPackages ==
    {Package("P2", w, e[1], e[2]) : w \in Weights, e \in {<<"A", "B">>, <<"C", "A">>}}

PackageLists ==
    {<<p>> : p \in FirstPackages}
    \cup {<<pq[1], pq[2]>> : pq \in FirstPackages \X SecondPackages}

TrainLists ==
    {<<Train("T1", 1, "A")>>,
     <<Train("T1", 2, "A")>>,
     <<Train("T1", 1, "A"), Train("T2", 2, "C")>>,
     <<Train("T1", 2, "B"), Train("T2", 1, "B")>>}

GeneratedNetworks ==
    {Network(<<"A", "B", "C">>, n[1], n[2], n[3]) :
        n \in RouteLists \X PackageLists \X TrainLists}

\* The networks of args.rs, mod case.
direct ==
    Network(<<"A", "B", "C">>,
            <<Route("AB", "A", "B", 10), Route("BC", "B", "C", 10)>>,
            <<Package("P", 5, "A", "C")>>,
            <<Train("T", 5, "A")>>)

choice ==
    Network(<<"A", "B", "C", "D">>,
            <<Route("AB", "A", "B", 10), Route("AC", "A", "C", 10),
              Route("BD", "B", "D", 10), Route("CD", "C", "D", 50)>>,
            <<Package("P", 5, "A", "D")>>,
            <<Train("T", 5, "A")>>)

islands ==
    Network(<<"A", "B", "C">>,
            <<Route("AB", "A", "B", 10)>>,
            <<Package("P", 5, "A", "B")>>,
            <<Train("T", 5, "A")>>)

diverge ==
    Network(<<"A", "B", "C", "D", "E">>,
            <<Route("AB", "A", "B", 10), Route("BC", "B", "C", 50),
              Route("CD", "C", "D", 40), Route("DE", "D", "E", 10)>>,
            <<Package("P1", 5, "B", "A"), Package("P2", 5, "D", "E")>>,
            <<Train("T", 10, "C")>>)

multiple_packages_small_train ==
    Network(<<"A", "B">>,
            <<Route("AB", "A", "B", 10)>>,
            <<Package("P1", 5, "A", "B"), Package("P2", 5, "A", "B")>>,
            <<Train("T", 5, "A")>>)

multiple_packages_big_train ==
    Network(<<"A", "B">>,
            <<Route("AB", "A", "B", 10)>>,
            <<Package("P1", 5, "A", "B"), Package("P2", 5, "A", "B")>>,
            <<Train("T", 10, "A")>>)

multiple_packages_islands ==
    Network(<<"A1", "B1", "A2", "B2">>,
            <<Route("AB1", "A1", "B1", 10), Route("AB2", "A2", "B2", 20)>>,
            <<Package("P1", 5, "A1", "B1"), Package("P2", 5, "A2", "B2")>>,
            <<Train("T1", 5, "A1"), Train("T2", 5, "A2")>>)

CaseNetworks ==
    {direct, choice, islands, diverge, multiple_packages_small_train,
     multiple_packages_big_train, multiple_packages_islands}

\* The networks the planner is walked on.
Networks == GeneratedNetworks \cup CaseNetworks

\* The networks the search is run on: those with one train or one package,
\* and the two-train, two-package networks on a line.
SolveNetworks ==
    {n \in Networks :
        \/ Len(n.trains) = 1
        \/ Len(n.packages) = 1
        \/ n \in CaseNetworks
        \/ /\ Len(n.routes) = 2
           /\ n.routes[2].from = "B"
           /\ n.trains[1].capacity = 1
           /\ n.packages[2].weight = 1
           /\ n.packages[1].from = "A"}

\* The parsed inputs that construction is run on: station lists that hold
\* all, some or none of the names the routes, packages and trains refer to.
StationLists == {<<"A", "B", "C">>, <<"A", "B">>, <<"A", "C">>, <<"B">>, <<>>}

BuildRouteLists ==
    {<<>>, <<Route("AB", "A", "B", 1)>>, <<Route("BA", "B", "A", 1)>>,
     <<Route("AB", "A", "B", 1), Route("BC", "B", "C", MaxTime)>>}

BuildPackageLists ==
    {<<Package("P1", 1, "A", "B")>>, <<Package("P1", 1, "B", "C")>>,
     <<Package("P1", 1, "A", "A")>>,
     <<Package("P1", 1, "A", "B"), Package("P2", MaxWeight, "C", "A")>>}

BuildTrainLists ==
    {<<Train("T1", 1, "A")>>, <<Train("T1", 1, "B")>>,
     <<Train("T1", MaxWeight, "A"), Train("T2", 1, "C")>>}

BuildInputs ==
    {Network(n[1], n[2], n[3], n[4]) :
        n \in StationLists \X BuildRouteLists \X BuildPackageLists \X BuildTrainLists}

\* The networks the router is run on: four stations, D on no route, and up
\* to three routes among A, B and C, or two routes between A and C together
\* with the way round through B. Travel times from 0.
RouteTimes == 0 .. MaxRouteTime

RouterEndpoints ==
    {<<"A", "B">>, <<"B", "A">>, <<"B", "C">>, <<"A", "C">>, <<"C", "A">>, <<"B", "B">>}

RouterRoutes(name) ==
    {Route(name, e[1], e[2], t) : e \in RouterEndpoints, t \in RouteTimes}

RouterRouteLists ==
    {<<>>}
    \cup {<<r>> : r \in RouterRoutes("R1")}
    \cup {<<r[1], r[2]>> : r \in RouterRoutes("R1") \X RouterRoutes("R2")}
    \cup {<<r[1], r[2], r[3]>> :
             r \in RouterRoutes("R1") \X RouterRoutes("R2") \X RouterRoutes("R3")}
    \cup {<<Route("R1", "A", "C", t[1]), Route("R2", "A", "C", t[2]),
             Route("R3", "A", "B", t[3]), Route("R4", "B", "C", t[4])>> :
             t \in RouteTimes \X RouteTimes \X RouteTimes \X RouteTimes}

RouterNetworks ==
    {Network(<<"A", "B", "C", "D">>, routes,
             <<Package("P1", 1, "A", "B")>>, <<Train("T1", 1, "A")>>) :
        routes \in RouterRouteLists}

\* The networks the planner of model.rs is walked on.
DraftNetworks == {n \in Networks : Len(n.packages) = 1 \/ Len(n.routes) >= 2}

\* The networks on which trains are handed actions by themselves: one route.
TakeNetworks == {n \in Networks : Len(n.routes) = 1}

-----------------------------------------------------------------------------
(* The state machine.                                                      *)

\* No call of take_action made yet.
NoCall == [kind |-> "none"]

\* A call of take_action on the train at `index`, whose state was `before`.
Call(index, action, before) ==
    [kind |-> "take_action", index |-> index, action |-> action, before |-> before]

InitOn(networks) ==
    /\ net \in networks
    /\ route_map = all_shortest_route_paths_map(net)
    /\ train_states = new(net)
    /\ cost_sum = 0
    /\ panicked = FALSE
    /\ to_see = solve_start(net).to_see
    /\ parents = solve_start(net).parents
    /\ result = Running
    /\ called = NoCall

Init == InitOn(Networks)

InitSolve == InitOn(SolveNetworks)

\* The planner moves from the current state to one of the successors that
\* take_available_actions returns for it.
TakeAvailableActions ==
    /\ ~ panicked
    /\ IF take_available_actions_panics(train_states, net, route_map)
       THEN /\ panicked' = TRUE
            /\ UNCHANGED <<train_states, cost_sum>>
       ELSE /\ \E k \in DOMAIN take_available_actions(train_states, net, route_map) :
                LET next == take_available_actions(train_states, net, route_map)[k]
                IN  /\ train_states' = next.state
                    /\ cost_sum' = cost_sum + next.cost
            /\ UNCHANGED panicked
    /\ UNCHANGED <<net, route_map, to_see, parents, result, called>>

Next == TakeAvailableActions

Spec == Init /\ [][Next]_vars

\* One turn of the search loop of Network::solve.
DijkstraStep ==
    /\ result.kind = "running"
    /\ IF to_see = {}
       THEN /\ result' = Infeasible
            /\ UNCHANGED <<to_see, parents>>
       ELSE \E top \in cheapest(to_see) :
                LET sr == dijkstra_step([to_see |-> to_see, parents |-> parents,
                                         result |-> result], top, net, route_map)
                IN  /\ to_see' = sr.to_see
                    /\ parents' = sr.parents
                    /\ result' = sr.result
    /\ UNCHANGED <<net, route_map, train_states, cost_sum, panicked, called>>

NextSolve == DijkstraStep

SpecSolve == InitSolve /\ [][NextSolve]_vars

\* The state after the arguments are parsed: net holds the parsed input.
InitBuild ==
    /\ net \in BuildInputs
    /\ route_map = <<>>
    /\ train_states = <<>>
    /\ cost_sum = 0
    /\ panicked = FALSE
    /\ to_see = {}
    /\ parents = <<>>
    /\ result = Unbuilt
    /\ called = NoCall

\* Network::try_from on the parsed input; on success the search is set up on
\* the network built, on failure the program ends with the error.
TryFromNetwork ==
    /\ result.kind = "unbuilt"
    /\ LET built == network_try_from(net)
       IN  IF built.ok
           THEN /\ net' = built.value
                /\ route_map' = all_shortest_route_paths_map(built.value)
                /\ train_states' = new(built.value)
                /\ to_see' = solve_start(built.value).to_see
                /\ parents' = solve_start(built.value).parents
                /\ result' = Running
           ELSE /\ result' = BuildError(built.error)
                /\ UNCHANGED <<net, route_map, train_states, to_see, parents>>
    /\ UNCHANGED <<cost_sum, panicked, called>>

NextBuild == TryFromNetwork \/ DijkstraStep

SpecBuild == InitBuild /\ [][NextBuild]_vars

\* The network is built and its route map is not computed yet.
InitRouter ==
    /\ net \in RouterNetworks
    /\ route_map = <<>>
    /\ train_states = <<>>
    /\ cost_sum = 0
    /\ panicked = FALSE
    /\ to_see = {}
    /\ parents = <<>>
    /\ result = Unbuilt
    /\ called = NoCall

\* Network::all_shortest_route_paths_map on the network.
AllShortestRoutePathsMap ==
    /\ route_map = <<>>
    /\ route_map' = all_shortest_route_paths_map(net)
    /\ UNCHANGED <<net, train_states, cost_sum, panicked, to_see, parents, result, called>>

NextRouter == AllShortestRoutePathsMap

SpecRouter == InitRouter /\ [][NextRouter]_vars

InitDraft ==
    /\ net \in DraftNetworks
    /\ route_map = optimal_route_paths_map(net)
    /\ train_states = new(net)
    /\ cost_sum = 0
    /\ panicked = FALSE
    /\ to_see = {}
    /\ parents = <<>>
    /\ result = Running
    /\ called = NoCall

\* The planner of model.rs moves from the current state to one of the
\* successors that successor_states returns for it, under some iteration
\* order of the set of actions not taken.
SuccessorStates ==
    /\ ~ panicked
    /\ \E order \in IterationOrders(possible_actions(net) \ model_taken_actions(train_states)) :
          IF model_successor_states_panics(train_states, route_map, order)
          THEN /\ panicked' = TRUE
               /\ UNCHANGED <<train_states, cost_sum>>
          ELSE /\ \E k \in DOMAIN model_successor_states(train_states, route_map, order) :
                   LET next == model_successor_states(train_states, route_map, order)[k]
                   IN  /\ train_states' = next.state
                       /\ cost_sum' = cost_sum + next.cost
               /\ UNCHANGED panicked
    /\ UNCHANGED <<net, route_map, to_see, parents, result, called>>

NextDraft == SuccessorStates

SpecDraft == InitDraft /\ [][NextDraft]_vars

InitTake == InitOn(TakeNetworks)

\* Train::take_action is called on some train with some required action,
\* whether the train can take it or not.
TakeAction ==
    /\ Len(taken_actions(train_states)) < MaxCalls
    /\ \E i \in DOMAIN train_states :
          \E a \in Range(required_actions(net)) :
              /\ train_states' = [train_states EXCEPT ![i] = take_action(@, a, route_map)]
              /\ called' = Call(i, a, train_states[i])
    /\ UNCHANGED <<net, route_map, cost_sum, panicked, to_see, parents, result>>

NextTake == TakeAction

SpecTake == InitTake /\ [][NextTake]_vars

-----------------------------------------------------------------------------
(* Notions the properties are stated with, independent of the code's own   *)
(* derived values.                                                         *)

\* The packages train i has picked and not dropped since.
Carried(taken) ==
    {a.package : a \in {b \in Range(taken) : b.kind = "Pick"}}
    \ {a.package : a \in {b \in Range(taken) : b.kind = "Drop"}}

RECURSIVE WeightOf(_)
WeightOf(packages) ==
    IF packages = {} THEN 0
    ELSE LET p == CHOOSE q \in packages : TRUE
         IN  p.weight + WeightOf(packages \ {p})

\* Every required action has been taken by some train.
AllTaken(states, network) ==
    \A a \in Range(required_actions(network)) : Contains(taken_actions(states), a)

\* Some package is heavier than every train's capacity.
SomePackageTooHeavy(network) ==
    \E p \in Range(network.packages) :
        \A t \in Range(network.trains) : p.weight > t.capacity

\* Some package's pickup station cannot be reached by any train.
SomePickupUnreachable(network, rm) ==
    \E p \in Range(network.packages) :
        \A t \in Range(network.trains) : <<t.initial_station, p.from>> \notin DOMAIN rm

\* The makespans of the states that are reachable from `states` by legal
\* commitments and in which every required action is taken.
RECURSIVE CompleteCosts(_, _, _)
CompleteCosts(states, network, rm) ==
    IF AllTaken(states, network) THEN {travel_time_used(states, rm)}
    ELSE IF unwraps_none(states, network, rm) THEN {}
    ELSE UNION {CompleteCosts(s, network, rm) :
                   s \in Range(successor_states(states, network, rm))}

\* The sum of the travel times of the routes of a list of instructions.
RouteTimeOf(instrs) == SumSeq([k \in 1 .. Len(instrs) |-> instrs[k].route.travel_time])

\* The same network with one input list given in reverse order.
ReversedInputs(network) ==
    {[network EXCEPT !.routes = Reverse(network.routes)],
     [network EXCEPT !.packages = Reverse(network.packages)],
     [network EXCEPT !.trains = Reverse(network.trains)]}

\* Every package can be picked by some train: one that reaches its pickup
\* station and is large enough for it.
Deliverable(network, rm) ==
    \A p \in Range(network.packages) :
        \E t \in Range(network.trains) :
            p.weight <= t.capacity /\ <<t.initial_station, p.from>> \in DOMAIN rm

-----------------------------------------------------------------------------
(* The properties.                                                         *)

\* C1: in every state reachable by take_available_actions, every train
\* carries (picked and not yet dropped) at most its capacity.
C1_CargoWithinCapacity ==
    \A i \in DOMAIN train_states :
        /\ WeightOf(Carried(train_states[i].taken_actions)) <= train_states[i].train.capacity
        /\ current_weight(train_states[i]) = WeightOf(Carried(train_states[i].taken_actions))

\* C1 witness: a train holds a package and is refused another one, whose
\* pickup station it can reach, because the two together exceed its capacity.
C1_Witness ==
    \E i \in DOMAIN train_states :
        \E a \in Range(untaken_actions(train_states, net)) :
            /\ a.kind = "Pick"
            /\ Carried(train_states[i].taken_actions) # {}
            /\ <<train_states[i].train.initial_station, a.package.from>> \in DOMAIN route_map
            /\ a.package.weight <= train_states[i].train.capacity
            /\ ~ can_take(train_states[i], a, route_map)

\* C2: every Drop(p) in a train's history comes after a Pick(p) of the same
\* train with no other Drop(p) in between, and no train drops a package that
\* another train picked.
C2_DropFollowsOwnPick ==
    /\ \A i \in DOMAIN train_states :
          LET taken == train_states[i].taken_actions
          IN  \A k \in DOMAIN taken :
                  taken[k].kind = "Drop" =>
                      \E j \in 1 .. k - 1 :
                          /\ taken[j] = Pick(taken[k].package)
                          /\ \A m \in j + 1 .. k - 1 : taken[m] # taken[k]
    /\ \A i, j \in DOMAIN train_states :
          i # j =>
              \A a \in Range(train_states[i].taken_actions) :
                  a.kind = "Pick" =>
                      ~ Contains(train_states[j].taken_actions, Drop(a.package))

\* C2 witness: with two trains, one has dropped a package it picked while the
\* other train holds another package.
C2_Witness ==
    \E i, j \in DOMAIN train_states :
        /\ i # j
        /\ \E a \in Range(train_states[i].taken_actions) : a.kind = "Drop"
        /\ Carried(train_states[j].taken_actions) # {}

\* C3: is_success() is true exactly when every required action has been
\* taken by some train.
C3_SuccessIffAllTaken ==
    is_success(train_states, net, route_map) <=> AllTaken(train_states, net)

\* C4: when a package is heavier than every train's capacity, the search
\* accepts no state as a goal.
C4_TooHeavyNeverFound ==
    SomePackageTooHeavy(net) => result.kind # "found"

\* C5: when a package's pickup station is out of reach of every train, the
\* search accepts no state as a goal.
C5_UnreachableNeverFound ==
    SomePickupUnreachable(net, route_map) => result.kind # "found"

\* C6: the makespan the search returns is the least makespan of the states in
\* which every required action is taken.
C6_ReturnsLeastCompleteMakespan ==
    result.kind = "found" =>
        LET costs == CompleteCosts(new(net), net, route_map)
        IN  /\ costs # {}
            /\ result.cost = MinOf(costs)

\* On a network whose packages are all deliverable the search returns a state
\* in which every required action is taken, at the least makespan of all such
\* states.
SearchOptimalWhenDeliverable ==
    (Deliverable(net, route_map) /\ result.kind = "found") =>
        /\ AllTaken(result.state, net)
        /\ result.cost = MinOf(CompleteCosts(new(net), net, route_map))
        /\ result.cost = travel_time_used(result.state, route_map)

\* C7: no successor that take_available_actions generates has a smaller
\* travel_time_used than the current state, so the subtraction of the edge
\* cost never underflows.
C7_SuccessorCostNotSmaller ==
    ~ unwraps_none(train_states, net, route_map) =>
        /\ \A k \in DOMAIN successor_states(train_states, net, route_map) :
              travel_time_used(successor_states(train_states, net, route_map)[k], route_map)
                  >= travel_time_used(train_states, route_map)
        /\ ~ underflows(train_states, net, route_map)

\* C7 witness: a state with a successor of greater makespan and a successor
\* of equal makespan.
C7_Witness ==
    /\ ~ take_available_actions_panics(train_states, net, route_map)
    /\ \E k \in DOMAIN take_available_actions(train_states, net, route_map) :
           take_available_actions(train_states, net, route_map)[k].cost > 0
    /\ \E k \in DOMAIN take_available_actions(train_states, net, route_map) :
           take_available_actions(train_states, net, route_map)[k].cost = 0
    /\ travel_time_used(train_states, route_map) > 0

\* C8: along every path of successors from the initial state, the sum of the
\* edge costs equals the makespan of the state reached.
C8_CostSumIsMakespan ==
    cost_sum = travel_time_used(train_states, route_map)

\* C8 witness: both of two trains have moved, and the makespan is above the
\* travel time of one of them.
C8_Witness ==
    /\ cost_sum > 0
    /\ \A i \in DOMAIN train_states : train_travel_time_used(train_states[i], route_map) > 0
    /\ \E i \in DOMAIN train_states :
           train_travel_time_used(train_states[i], route_map) < cost_sum

\* C9: for every train the travel times of the routes of its instructions sum
\* to its accumulated travel time, and the largest of these sums is the
\* makespan of the state.
C9_InstructionTimesSumToTravelTime ==
    /\ \A i \in DOMAIN train_states :
          RouteTimeOf(train_instructions(train_states[i], route_map))
              = train_travel_time_used(train_states[i], route_map)
    /\ MaxOf({RouteTimeOf(train_instructions(train_states[i], route_map)) :
                 i \in DOMAIN train_states})
          = travel_time_used(train_states, route_map)

\* C9 witness: a train that has travelled, and whose instructions were folded
\* into fewer than sub_instructions produced.
C9_Witness ==
    \E i \in DOMAIN train_states :
        /\ train_travel_time_used(train_states[i], route_map) > 0
        /\ Len(train_instructions(train_states[i], route_map))
               < Len(raw_instructions(train_states[i], route_map))
        /\ Len(train_instructions(train_states[i], route_map)) >= 3

\* C10: the makespan the search returns is the same with the routes, the
\* packages or the trains given in reverse order.
C10_SameMakespanReversed ==
    result.kind = "found" =>
        \A other \in ReversedInputs(net) :
            solve(other).kind = "found" => solve(other).cost = result.cost

-----------------------------------------------------------------------------
(* The networks of args.rs, mod case.                                      *)

\* The planner state of a one-train network after the given history.
OneTrainState(network, history) ==
    <<[train |-> network.trains[1], taken_actions |-> history] >>

\* The search ends by returning a state or is still running.
SearchReturns == result.kind \in {"running", "found"}

\* C11: on the diverge network the search returns makespan 160, by delivering
\* P2 first, while the order Pick P1, Drop P1, Pick P2, Drop P2 costs 170.
C11_DivergeMakespan ==
    net = diverge =>
        LET P1 == net.packages[1]
            P2 == net.packages[2]
        IN  /\ SearchReturns
            /\ result.kind = "found" =>
                   /\ result.cost = 160
                   /\ result.state =
                          OneTrainState(net, <<Pick(P2), Drop(P2), Pick(P1), Drop(P1)>>)
            /\ travel_time_used(
                   OneTrainState(net, <<Pick(P1), Drop(P1), Pick(P2), Drop(P2)>>),
                   route_map) = 170

\* C11 witness: the search has returned on the diverge network.
C11_Witness == net = diverge /\ result.kind = "found"

\* C12: on the two-station network with a train of capacity 5 and two packages
\* of weight 5 the search returns makespan 30, and no state it visits has the
\* train holding both packages.
C12_SmallTrainMakespan ==
    net = multiple_packages_small_train =>
        /\ SearchReturns
        /\ result.kind = "found" => (result.cost = 30 /\ AllTaken(result.state, net))
        /\ \A node \in DOMAIN parents :
               Cardinality(Carried(node[1].taken_actions)) <= 1

\* C12 witness: the search has returned on the small-train network.
C12_Witness == net = multiple_packages_small_train /\ result.kind = "found"

\* C13: on the same network with a train of capacity 10 the search returns
\* makespan 10, with both packages picked before either is dropped.
C13_BigTrainMakespan ==
    net = multiple_packages_big_train =>
        /\ SearchReturns
        /\ result.kind = "found" =>
               LET taken == result.state[1].taken_actions
               IN  /\ result.cost = 10
                   /\ Len(taken) = 4
                   /\ taken[1].kind = "Pick" /\ taken[2].kind = "Pick"
                   /\ taken[3].kind = "Drop" /\ taken[4].kind = "Drop"

\* C13 witness: the search has returned on the big-train network.
C13_Witness == net = multiple_packages_big_train /\ result.kind = "found"

\* C14: on the two islands the search returns makespan 20, the larger of the
\* two trains' travel times, and in every state it visits each train has only
\* handled the package of its own island.
C14_IslandsMakespan ==
    net = multiple_packages_islands =>
        /\ SearchReturns
        /\ result.kind = "found" =>
               /\ result.cost = 20
               /\ train_travel_time_used(result.state[1], route_map) = 10
               /\ train_travel_time_used(result.state[2], route_map) = 20
        /\ \A node \in DOMAIN parents :
               \A i \in DOMAIN node :
                   \A a \in Range(node[i].taken_actions) : a.package = net.packages[i]
        /\ \A i, j \in DOMAIN net.trains :
               can_pick(new(net)[i], net.packages[j], route_map) <=> i = j

\* C14 witness: the search has returned on the two islands.
C14_Witness == net = multiple_packages_islands /\ result.kind = "found"

-----------------------------------------------------------------------------
(* Construction.                                                           *)

\* The station names an input refers to: route endpoints, package pickups and
\* destinations, trains' initial stations.
ReferencedNames(input) ==
    UNION {{r.from, r.to} : r \in Range(input.routes)}
    \cup UNION {{p.from, p.to} : p \in Range(input.packages)}
    \cup {t.initial_station : t \in Range(input.trains)}

\* C15: construction succeeds exactly when every station name the input
\* refers to is in its station list; otherwise it ends with the error
\* "station not found: NAME" for such a name, no network is built and the
\* search never starts.
C15_BuildSucceedsIffStationsKnown ==
    result.kind # "unbuilt" =>
        LET unknown == ReferencedNames(net) \ Range(net.stations)
        IN  /\ result.kind = "error" <=> unknown # {}
            /\ result.kind = "error" =>
                   /\ \E name \in unknown : result.message = "station not found: " \o name
                   /\ train_states = <<>>
                   /\ route_map = <<>>
                   /\ to_see = {}
                   /\ parents = <<>>
            /\ result.kind # "error" => train_states # <<>>

\* C15 witness: construction has failed on a name that only a train refers to.
C15_Witness ==
    /\ result.kind = "error"
    /\ \A r \in Range(net.routes) : {r.from, r.to} \subseteq Range(net.stations)
    /\ \A p \in Range(net.packages) : {p.from, p.to} \subseteq Range(net.stations)
    /\ net.routes # <<>>

-----------------------------------------------------------------------------
(* The train state.                                                        *)

\* Where a train is: the station of its last taken action, or its initial
\* station when it has taken none.
PositionOf(train_state) ==
    IF train_state.taken_actions = <<>>
    THEN train_state.train.initial_station
    ELSE train_state.taken_actions[Len(train_state.taken_actions)].station

\* The actions that are still untaken and that train i can take.
Takeable(i) ==
    {a \in Range(untaken_actions(train_states, net)) :
        can_take(train_states[i], a, route_map)}

\* C16: a train with an empty history has travel time 0, and committing an
\* action to a train adds to its travel time exactly the RouteMap travel time
\* from its position to the action's station, so never decreases it.
C16_CommitAddsRouteMapTime ==
    \A i \in DOMAIN train_states :
        /\ train_states[i].taken_actions = <<>> =>
               train_travel_time_used(train_states[i], route_map) = 0
        /\ \A a \in Takeable(i) :
               LET leg == <<PositionOf(train_states[i]), a.station>>
                   after == take_action(train_states[i], a, route_map)
               IN  leg \in DOMAIN route_map =>
                       /\ train_travel_time_used(after, route_map)
                              = train_travel_time_used(train_states[i], route_map)
                                    + travel_time(route_map[leg])
                       /\ train_travel_time_used(after, route_map)
                              >= train_travel_time_used(train_states[i], route_map)

\* C16 witness: a train that has moved away from its initial station can take
\* an action at yet another station, and one at the station it is at.
C16_Witness ==
    \E i \in DOMAIN train_states :
        /\ PositionOf(train_states[i]) # train_states[i].train.initial_station
        /\ \E a \in Takeable(i) :
               /\ a.station # PositionOf(train_states[i])
               /\ a.station # train_states[i].train.initial_station
               /\ <<PositionOf(train_states[i]), a.station>> \in DOMAIN route_map
        /\ \E a \in Takeable(i) : a.station = PositionOf(train_states[i])

-----------------------------------------------------------------------------
(* The successors.                                                         *)

\* The pairs (train, untaken action) such that the train can take the action.
TakeablePairs == UNION {{<<i, a>> : a \in Takeable(i)} : i \in DOMAIN train_states}

\* The current state with action a appended to the history of train i.
Committed(i, a) ==
    [train_states EXCEPT ![i].taken_actions = Append(@, a)]

\* The successors are the takeable pairs, one successor each.
SuccessorsArePairs(succs) ==
    /\ Len(succs) = Cardinality(TakeablePairs)
    /\ \A pair \in TakeablePairs :
           \E k \in DOMAIN succs :
               /\ succs[k].state = Committed(pair[1], pair[2])
               /\ \A m \in DOMAIN succs : succs[m].state = succs[k].state => m = k
    /\ succs = <<>> <=> TakeablePairs = {}
    /\ TakeablePairs = {} <=> is_success(train_states, net, route_map)

\* C17: in every planner state take_available_actions returns exactly one
\* successor for each pair (train, untaken action) the train can take, the
\* state with that action committed to that train, and returns none exactly
\* when there is no such pair, which is exactly when is_success() holds.
C17_OneSuccessorPerTakeablePair ==
    /\ ~ take_available_actions_panics(train_states, net, route_map)
    /\ SuccessorsArePairs(take_available_actions(train_states, net, route_map))

\* Whenever take_available_actions returns, what it returns is one successor
\* for each takeable pair.
SuccessorsArePairsWhenReturned ==
    ~ take_available_actions_panics(train_states, net, route_map) =>
        SuccessorsArePairs(take_available_actions(train_states, net, route_map))

-----------------------------------------------------------------------------
(* Taken and untaken actions.                                              *)

\* The position of an action in the required-action list.
RequiredIndex(a) ==
    MinOf({k \in DOMAIN required_actions(net) : required_actions(net)[k] = a})

\* The actions in some train's history.
InSomeHistory ==
    UNION {Range(train_states[i].taken_actions) : i \in DOMAIN train_states}

\* C18: in every reachable state every action of every history is a required
\* action, no action occurs twice across the histories, and untaken_actions()
\* is the required actions that are in no history, in the order of the
\* required-action list.
C18_TakenAndUntakenPartitionRequired ==
    LET required == required_actions(net)
        untaken  == untaken_actions(train_states, net)
        taken    == taken_actions(train_states)
    IN  /\ InSomeHistory \subseteq Range(required)
        /\ \A j, k \in DOMAIN taken : taken[j] = taken[k] => j = k
        /\ Range(untaken) = Range(required) \ InSomeHistory
        /\ \A j, k \in DOMAIN untaken :
               j < k => RequiredIndex(untaken[j]) < RequiredIndex(untaken[k])
        /\ Len(untaken) + Len(taken) = Len(required)

\* C18 witness: two trains have each taken an action and the untaken actions
\* are the two Drops, which are not next to each other in the required list.
C18_Witness ==
    /\ \E i, j \in DOMAIN train_states :
           /\ i # j
           /\ train_states[i].taken_actions # <<>>
           /\ train_states[j].taken_actions # <<>>
    /\ Len(untaken_actions(train_states, net)) = 2
    /\ \A k \in 1 .. 2 : untaken_actions(train_states, net)[k].kind = "Drop"

-----------------------------------------------------------------------------
(* What a train can take.                                                  *)

\* C19: a train can take Pick(p) exactly when the RouteMap has a path from the
\* train's initial station to p's pickup station and p's weight plus the
\* weight the train carries is at most its capacity; an empty train can pick
\* a package as heavy as its capacity.
C19_CanTakePick ==
    \A i \in DOMAIN train_states :
        \A p \in Range(net.packages) :
            LET train   == train_states[i].train
                carried == WeightOf(Carried(train_states[i].taken_actions))
                path    == <<train.initial_station, p.from>> \in DOMAIN route_map
            IN  /\ can_take(train_states[i], Pick(p), route_map)
                       <=> (path /\ p.weight + carried <= train.capacity)
                /\ (path /\ carried = 0 /\ p.weight = train.capacity)
                       => can_take(train_states[i], Pick(p), route_map)

\* C19 witness: a train that has dropped what it picked can take the Pick of
\* an untaken package as heavy as its capacity, whose pickup station is not
\* where the train is, and another train is refused a Pick for lack of room.
C19_Witness ==
    /\ \E i \in DOMAIN train_states :
           \E a \in Takeable(i) :
               /\ a.kind = "Pick"
               /\ train_states[i].taken_actions # <<>>
               /\ Carried(train_states[i].taken_actions) = {}
               /\ a.package.weight = train_states[i].train.capacity
               /\ a.station # PositionOf(train_states[i])
    /\ \E j \in DOMAIN train_states :
           \E p \in Range(net.packages) :
               /\ <<train_states[j].train.initial_station, p.from>> \in DOMAIN route_map
               /\ ~ can_take(train_states[j], Pick(p), route_map)

\* C20: a train can take Drop(p) exactly when it is carrying p, that is when
\* its history holds a Pick(p) with no later Drop(p); it cannot once it has
\* dropped p.
C20_CanTakeDropIffCarrying ==
    \A i \in DOMAIN train_states :
        \A p \in Range(net.packages) :
            can_take(train_states[i], Drop(p), route_map)
                <=> p \in Carried(train_states[i].taken_actions)

\* A train can take Drop(p) exactly when its history holds a Pick(p), dropped
\* since or not.
CanTakeDropIffPicked ==
    \A i \in DOMAIN train_states :
        \A p \in Range(net.packages) :
            can_take(train_states[i], Drop(p), route_map)
                <=> Contains(train_states[i].taken_actions, Pick(p))

-----------------------------------------------------------------------------
(* The route map.                                                          *)

\* The route map has been computed.
RouteMapBuilt == route_map # <<>>

\* The ways to travel one route of the network: either direction of every
\* input route, as <<from, to, travel time>>.
Legs(network) ==
    UNION {{<<r.from, r.to, r.travel_time>>, <<r.to, r.from, r.travel_time>>} :
              r \in Range(network.routes)}

\* The total travel times of the sequences of at most `hops` routes that lead
\* from a to b.
RECURSIVE TotalsWithin(_, _, _, _)
TotalsWithin(network, a, b, hops) ==
    (IF a = b THEN {0} ELSE {})
    \cup (IF hops = 0 THEN {}
          ELSE UNION {{t + leg[3] : t \in TotalsWithin(network, a, leg[1], hops - 1)} :
                         leg \in {l \in Legs(network) : l[2] = b}})

\* The total travel times of the loop-free ways from a to b: a way that visits
\* a station twice is never the only shortest one.
Totals(network, a, b) == TotalsWithin(network, a, b, Len(network.stations) - 1)

\* Two routes of the network join the same two stations.
HasParallelRoutes(network) ==
    \E i, j \in DOMAIN network.routes :
        /\ i # j
        /\ {network.routes[i].from, network.routes[i].to}
               = {network.routes[j].from, network.routes[j].to}

\* C21: for every pair of the route map, the travel times of the routes of
\* the stored path sum to the least total travel time of the sequences of
\* routes that lead from the first station to the second.
C21_StoredPathIsShortest ==
    RouteMapBuilt =>
        \A pair \in DOMAIN route_map :
            /\ Totals(net, pair[1], pair[2]) # {}
            /\ travel_time(route_map[pair]) = MinOf(Totals(net, pair[1], pair[2]))

\* When no two routes join the same two stations, every stored path is a
\* shortest one.
StoredPathIsShortestWithoutParallelRoutes ==
    (RouteMapBuilt /\ ~ HasParallelRoutes(net)) =>
        \A pair \in DOMAIN route_map :
            /\ Totals(net, pair[1], pair[2]) # {}
            /\ travel_time(route_map[pair]) = MinOf(Totals(net, pair[1], pair[2]))

\* The stations of every stored path follow a shortest way, and each of its
\* routes joins two consecutive stations of it.
StoredPathFollowsShortestStations ==
    RouteMapBuilt =>
        \A pair \in DOMAIN route_map :
            LET routes == route_map[pair].routes
            IN  /\ routes # <<>>
                /\ routes[1].from = pair[1]
                /\ routes[Len(routes)].to = pair[2]
                /\ \A k \in 1 .. Len(routes) - 1 : routes[k].to = routes[k + 1].from
                /\ SumSeq([k \in 1 .. Len(routes) |->
                              MinOf({leg[3] : leg \in {l \in Legs(net) :
                                         l[1] = routes[k].from /\ l[2] = routes[k].to}}
                                    \cup (IF routes[k].from = routes[k].to THEN {0} ELSE {}))])
                       = MinOf(Totals(net, pair[1], pair[2]))

\* C22: the route map has an entry for (a, b) exactly when b can be reached
\* from a through the routes, every station reaching itself: no entry joins
\* two components, and a station on no route has its own entry.
C22_EntryIffReachable ==
    RouteMapBuilt =>
        /\ \A a, b \in Range(net.stations) :
               <<a, b>> \in DOMAIN route_map <=> Totals(net, a, b) # {}
        /\ \A pair \in DOMAIN route_map :
               /\ pair[1] \in Range(net.stations)
               /\ pair[2] \in Range(net.stations)
               /\ route_map[pair].station_pair = pair
        /\ \A s \in Range(net.stations) : <<s, s>> \in DOMAIN route_map

\* C22 witness: routes join A and B, C is on a route of its own and D is on
\* none.
C22_Witness ==
    /\ RouteMapBuilt
    /\ <<"A", "B">> \in DOMAIN route_map
    /\ <<"B", "A">> \in DOMAIN route_map
    /\ <<"A", "C">> \notin DOMAIN route_map
    /\ <<"B", "D">> \notin DOMAIN route_map
    /\ <<"D", "D">> \in DOMAIN route_map
    /\ Len(net.routes) = 3

\* C23: for every station s the entry for (s, s) is the path made of the one
\* identity route from s to s, of travel time 0, whatever routes s is on.
C23_SelfEntryIsIdentity ==
    RouteMapBuilt =>
        \A s \in Range(net.stations) :
            LET path == route_map[<<s, s>>]
            IN  /\ Len(path.routes) = 1
                /\ path.routes[1].from = s
                /\ path.routes[1].to = s
                /\ path.routes[1].travel_time = 0
                /\ path.routes[1].name = s \o "#id"
                /\ path.routes[1].name \notin {r.name : r \in Range(net.routes)}
                /\ travel_time(path) = 0

\* C23 witness: the routes form a cycle through A, B and C, and B is also on
\* a route of travel time 0.
C23_Witness ==
    /\ RouteMapBuilt
    /\ Len(net.routes) = 3
    /\ {{r.from, r.to} : r \in Range(net.routes)}
           = {{"A", "B"}, {"B", "C"}, {"A", "C"}}
    /\ \E r \in Range(net.routes) : r.travel_time = 0 /\ "B" \in {r.from, r.to}

\* C24: the travel times of the stored paths satisfy the triangle inequality.
C24_TriangleInequality ==
    RouteMapBuilt =>
        \A a, b, c \in Range(net.stations) :
            ({<<a, b>>, <<b, c>>, <<a, c>>} \subseteq DOMAIN route_map) =>
                travel_time(route_map[<<a, c>>])
                    <= travel_time(route_map[<<a, b>>]) + travel_time(route_map[<<b, c>>])

\* Without parallel routes the stored travel times satisfy the triangle
\* inequality.
TriangleInequalityWithoutParallelRoutes ==
    (RouteMapBuilt /\ ~ HasParallelRoutes(net)) =>
        \A a, b, c \in Range(net.stations) :
            ({<<a, b>>, <<b, c>>, <<a, c>>} \subseteq DOMAIN route_map) =>
                travel_time(route_map[<<a, c>>])
                    <= travel_time(route_map[<<a, b>>]) + travel_time(route_map[<<b, c>>])

-----------------------------------------------------------------------------
(* Reversed routes.                                                        *)

\* C25: the reverse of an input route has the endpoints swapped, the same
\* travel time and a name that is neither the original's nor any input
\* route's, so the original and its reverse are unequal as routes.
C25_ReverseIsDistinctRoute ==
    \A r \in Range(net.routes) :
        /\ reverse(r).from = r.to
        /\ reverse(r).to = r.from
        /\ reverse(r).travel_time = r.travel_time
        /\ reverse(r).name # r.name
        /\ reverse(r).name \notin {q.name : q \in Range(net.routes)}
        /\ ~ route_eq(r, reverse(r))

\* The reverse of an input route has the endpoints swapped and the same
\* travel time, and reversing twice gives the route back.
ReverseSwapsEndpoints ==
    \A r \in Range(net.routes) :
        /\ reverse(r).from = r.to
        /\ reverse(r).to = r.from
        /\ reverse(r).travel_time = r.travel_time
        /\ reverse(reverse(r)) = r

-----------------------------------------------------------------------------
(* Instructions.                                                           *)

\* Every package an instruction picks is picked up where the instruction's
\* route starts, and every package it drops is bound for where it ends.
PackagesMatchRoute(instrs) ==
    \A k \in DOMAIN instrs :
        /\ \A p \in Range(instrs[k].picked_package) : p.from = instrs[k].route.from
        /\ \A p \in Range(instrs[k].dropped_package) : p.to = instrs[k].route.to

\* C26: in every instruction of every train, each picked package's pickup
\* station is the origin of the instruction's route and each dropped
\* package's destination is the destination of the route; so it is before
\* the instructions are combined and after.
C26_PackagesAtRouteEnds ==
    \A i \in DOMAIN train_states :
        /\ PackagesMatchRoute(raw_instructions(train_states[i], route_map))
        /\ PackagesMatchRoute(train_instructions(train_states[i], route_map))

\* C26 witness: an instruction on a route between two stations both picks and
\* drops, and the train reached a drop over a path of two routes.
C26_Witness ==
    \E i \in DOMAIN train_states :
        LET instrs == train_instructions(train_states[i], route_map)
        IN  /\ \E k \in DOMAIN instrs :
                   /\ instrs[k].picked_package # <<>>
                   /\ instrs[k].dropped_package # <<>>
                   /\ instrs[k].route.from # instrs[k].route.to
            /\ \E k \in DOMAIN instrs :
                   /\ k > 1
                   /\ instrs[k].dropped_package # <<>>
                   /\ instrs[k - 1].dropped_package = <<>>
                   /\ instrs[k - 1].picked_package = <<>>
                   /\ instrs[k - 1].route.from # instrs[k - 1].route.to

\* The instruction stands still: it is on an identity route.
StandsStill(instr) ==
    instr.route.from = instr.route.to /\ instr.route.travel_time = 0

\* No instruction of the list stands still without picking or dropping.
NoIdleInstruction(instrs) ==
    \A k \in DOMAIN instrs :
        StandsStill(instrs[k]) =>
            instrs[k].picked_package # <<>> \/ instrs[k].dropped_package # <<>>

\* The Picks that train i can take at the station where it is.
PicksHere(i) ==
    {a \in Takeable(i) : a.kind = "Pick" /\ a.station = PositionOf(train_states[i])}

-----------------------------------------------------------------------------
(* Successors and the state graph.                                         *)

\* Train state `after` is train state `before` with one required action
\* appended to its history.
OneActionAppended(before, after) ==
    /\ after.train = before.train
    /\ \E a \in Range(required_actions(net)) :
           after.taken_actions = Append(before.taken_actions, a)

\* C28: every successor that take_available_actions generates differs from
\* the current state in exactly one train, whose history is the old one with
\* one action appended; the other trains, the required actions and the route
\* map are as they were.
C28_SuccessorChangesOneTrain ==
    [][train_states' # train_states =>
          /\ DOMAIN train_states' = DOMAIN train_states
          /\ \E i \in DOMAIN train_states :
                 /\ OneActionAppended(train_states[i], train_states'[i])
                 /\ \A j \in DOMAIN train_states \ {i} : train_states'[j] = train_states[j]
          /\ train_states' \in
                 {succ.state : succ \in Range(take_available_actions(train_states, net, route_map))}
          /\ required_actions(net') = required_actions(net)
          /\ route_map' = route_map]_vars

\* C28 witness: of two trains one has taken two actions and the other one.
C28_Witness ==
    \E i, j \in DOMAIN train_states :
        /\ Len(train_states[i].taken_actions) = 2
        /\ Len(train_states[j].taken_actions) = 1

\* The walk has come to a state without successors, or has failed.
WalkEnded ==
    \/ panicked
    \/ /\ ~ take_available_actions_panics(train_states, net, route_map)
       /\ take_available_actions(train_states, net, route_map) = <<>>

\* C29: every chain of successors from the initial state has at most twice
\* as many steps as there are packages: each step takes exactly one more
\* required action, one that was untaken, so the number of untaken actions
\* goes down with every step and no chain comes back to a state.
C29_ChainsAreBounded ==
    [][train_states' # train_states =>
          /\ Len(taken_actions(train_states')) = Len(taken_actions(train_states)) + 1
          /\ Len(taken_actions(train_states')) <= 2 * Len(net.packages)
          /\ Len(untaken_actions(train_states', net'))
                 = Len(untaken_actions(train_states, net)) - 1
          /\ Len(untaken_actions(train_states', net')) >= 0
          /\ Range(taken_actions(train_states')) \ Range(taken_actions(train_states))
                 \subseteq Range(untaken_actions(train_states, net))]_vars

\* C29 witness: a chain of four steps on a network of two packages.
C29_Witness ==
    /\ Len(net.packages) = 2
    /\ Len(taken_actions(train_states)) = 4
    /\ WalkEnded

-----------------------------------------------------------------------------
(* The timeline of the plan.                                               *)

\* The place of a train in the fleet.
FleetIndex(train) == MinOf({i \in DOMAIN net.trains : net.trains[i] = train})

\* C30: in a train's instruction list the first instruction begins at 0,
\* every instruction begins at the sum of the travel times of the routes of
\* the train's earlier instructions, so begin times never decrease; in the
\* plan the instructions of a train earlier in the fleet come before those of
\* a later train.
C30_BeginTimesAccumulate ==
    /\ \A i \in DOMAIN train_states :
           LET instrs == train_instructions(train_states[i], route_map)
           IN  /\ instrs # <<>> => instrs[1].begin_at = 0
               /\ \A k \in DOMAIN instrs :
                      /\ instrs[k].begin_at = RouteTimeOf(SubSeq(instrs, 1, k - 1))
                      /\ instrs[k].train = train_states[i].train
               /\ \A k \in 1 .. Len(instrs) - 1 :
                      instrs[k].begin_at <= instrs[k + 1].begin_at
    /\ LET plan == instructions(train_states, route_map)
       IN  /\ \A j, k \in DOMAIN plan :
                  j < k => FleetIndex(plan[j].train) <= FleetIndex(plan[k].train)
           /\ Len(plan) = SumSeq([i \in 1 .. Len(train_states) |->
                                     Len(train_instructions(train_states[i], route_map))])

\* C30 witness: the first train of the fleet has several instructions, the
\* last of which begins later than the one before; the second train has an
\* instruction too.
C30_Witness ==
    LET first  == train_instructions(train_states[1], route_map)
    IN  /\ Len(train_states) = 2
        /\ Len(first) >= 2
        /\ first[Len(first)].begin_at > first[Len(first) - 1].begin_at
        /\ train_instructions(train_states[2], route_map) # <<>>

-----------------------------------------------------------------------------
(* Packages that go nowhere.                                               *)

\* The train state with only the first k actions of its history.
Prefix(train_state, k) ==
    [train_state EXCEPT !.taken_actions = SubSeq(@, 1, k)]

\* The places in a train's history where the Drop of a package whose pickup
\* station is its destination directly follows its Pick.
SelfLoopDrops(train_state) ==
    {k \in 2 .. Len(train_state.taken_actions) :
        LET p == train_state.taken_actions[k].package
        IN  /\ p.from = p.to
            /\ train_state.taken_actions[k - 1] = Pick(p)
            /\ train_state.taken_actions[k] = Drop(p)}

\* C31: a package whose pickup station is its destination still requires a
\* Pick and a Drop, and the Drop committed directly after the Pick on the
\* same train adds 0 to that train's travel time.
C31_SelfLoopAddsNoTime ==
    /\ \A p \in Range(net.packages) :
          p.from = p.to =>
              /\ actions(p) = <<Pick(p), Drop(p)>>
              /\ Pick(p) # Drop(p)
              /\ Contains(required_actions(net), Pick(p))
              /\ Contains(required_actions(net), Drop(p))
    /\ \A i \in DOMAIN train_states :
          \A k \in SelfLoopDrops(train_states[i]) :
              train_travel_time_used(Prefix(train_states[i], k), route_map)
                  = train_travel_time_used(Prefix(train_states[i], k - 1), route_map)

\* C31 witness: a train that travelled to the station of such a package has
\* picked it and dropped it there.
C31_Witness ==
    \E i \in DOMAIN train_states :
        /\ SelfLoopDrops(train_states[i]) # {}
        /\ train_travel_time_used(train_states[i], route_map) > 0

-----------------------------------------------------------------------------
(* The planner of model.rs.                                                *)

\* C32: in the planner of model.rs every Drop(p) is committed to a train
\* whose history already holds Pick(p), never to a train that did not pick
\* the package.
C32_DraftDropsOnlyWherePicked ==
    \A i \in DOMAIN train_states :
        LET taken == train_states[i].taken_actions
        IN  \A k \in DOMAIN taken :
                taken[k].kind = "Drop" =>
                    \E j \in 1 .. k - 1 : taken[j] = Pick(taken[k].package)

\* In the planner of model.rs no action is committed twice, to whatever train.
DraftCommitsNoActionTwice ==
    Cardinality(model_taken_actions(train_states)) = Len(taken_actions(train_states))

-----------------------------------------------------------------------------
(* Missing routes.                                                         *)

\* Every (from, to) pair of every train's chain is a key of the RouteMap.
ChainPairsInRouteMap(states, rm) ==
    \A i \in DOMAIN states : Range(route_pairs(states[i])) \subseteq DOMAIN rm

\* C33: in every state reachable by take_available_actions, and in every
\* successor generated from it, every (from, to) pair of every train's path
\* chain is a key of the RouteMap, so that travel times and instructions are
\* computed without failing on a missing route, also when the destination of
\* a package cannot be reached from its pickup station.
C33_ChainPairsAreRouteMapKeys ==
    /\ ChainPairsInRouteMap(train_states, route_map)
    /\ \A k \in DOMAIN successor_states(train_states, net, route_map) :
          ChainPairsInRouteMap(successor_states(train_states, net, route_map)[k], route_map)
    /\ ~ unwraps_none(train_states, net, route_map)

\* The states of the walk themselves have every pair of their chains in the
\* RouteMap: the missing route is met while a successor is measured.
ReachedChainPairsAreRouteMapKeys == ChainPairsInRouteMap(train_states, route_map)

-----------------------------------------------------------------------------
(* The end of the plan.                                                    *)

\* C34: in every reachable state for which is_success() holds, the cargo of
\* every train is empty: no train ends the plan carrying a package it picked.
C34_NoCargoAtSuccess ==
    is_success(train_states, net, route_map) =>
        \A i \in DOMAIN train_states :
            /\ current_packages(train_states[i]) = <<>>
            /\ Carried(train_states[i].taken_actions) = {}

\* C34 witness: is_success() holds, two trains have each picked and dropped
\* a package.
C34_Witness ==
    /\ is_success(train_states, net, route_map)
    /\ Len(train_states) = 2
    /\ \A i \in DOMAIN train_states :
          \E a \in Range(train_states[i].taken_actions) : a.kind = "Drop"

-----------------------------------------------------------------------------
(* Commits to different trains.                                            *)

\* The planner state after train i has taken action a.
Commit(states, i, a) ==
    [states EXCEPT ![i] = take_action(states[i], a, route_map)]

\* Whether action a is available to train i in the given planner state.
AvailableTo(states, i, a) ==
    Contains(train_available_actions(states[i], untaken_actions(states, net), route_map), a)

\* The pairs of commits to two different trains that the current state offers.
IndependentCommits ==
    {c \in ((DOMAIN train_states) \X Range(required_actions(net)))
             \X ((DOMAIN train_states) \X Range(required_actions(net))) :
        /\ c[1][1] # c[2][1]
        /\ c[1][2] # c[2][2]
        /\ AvailableTo(train_states, c[1][1], c[1][2])
        /\ AvailableTo(train_states, c[2][1], c[2][2])}

\* Each of the two actions is still available to its train after the other
\* has been committed, and both orders give the same train states.
StaysAvailableAndMeets(i, a, j, b) ==
    /\ AvailableTo(Commit(train_states, i, a), j, b)
    /\ AvailableTo(Commit(train_states, j, b), i, a)
    /\ Commit(Commit(train_states, i, a), j, b) = Commit(Commit(train_states, j, b), i, a)

\* C35: committing actions to two different trains commutes: if a is
\* available to train i and a different action b to another train j, then b
\* is still available to j after a was committed to i and the reverse, and
\* both orders lead to the same planner state with the same makespan.
C35_CommitsCommute ==
    \A c \in IndependentCommits :
        LET i  == c[1][1]
            a  == c[1][2]
            j  == c[2][1]
            b  == c[2][2]
            ab == Commit(Commit(train_states, i, a), j, b)
            ba == Commit(Commit(train_states, j, b), i, a)
        IN  /\ StaysAvailableAndMeets(i, a, j, b)
            /\ ~ take_available_actions_panics(train_states, net, route_map)
            /\ ~ take_available_actions_panics(Commit(train_states, i, a), net, route_map)
            /\ ~ take_available_actions_panics(Commit(train_states, j, b), net, route_map)
            /\ ChainPairsInRouteMap(ab, route_map)
            /\ travel_time_used(ab, route_map) = travel_time_used(ba, route_map)

\* Where take_available_actions returns in the state and after either
\* commit, the two orders are both offered and meet in one state with one
\* makespan.
CommitsCommuteWhenReturned ==
    \A c \in IndependentCommits :
        LET i  == c[1][1]
            a  == c[1][2]
            j  == c[2][1]
            b  == c[2][2]
            ab == Commit(Commit(train_states, i, a), j, b)
            ba == Commit(Commit(train_states, j, b), i, a)
        IN  /\ StaysAvailableAndMeets(i, a, j, b)
            /\ (/\ ~ take_available_actions_panics(train_states, net, route_map)
                /\ ~ take_available_actions_panics(Commit(train_states, i, a), net, route_map)
                /\ ~ take_available_actions_panics(Commit(train_states, j, b), net, route_map))
                   => /\ ChainPairsInRouteMap(ab, route_map)
                      /\ travel_time_used(ab, route_map) = travel_time_used(ba, route_map)
                      /\ \E k \in DOMAIN successor_states(Commit(train_states, i, a), net, route_map) :
                            successor_states(Commit(train_states, i, a), net, route_map)[k] = ab
                      /\ \E k \in DOMAIN successor_states(Commit(train_states, j, b), net, route_map) :
                            successor_states(Commit(train_states, j, b), net, route_map)[k] = ba

-----------------------------------------------------------------------------
(* Packages in the instruction list.                                       *)

\* The instructions of the list that name the package as picked, once for
\* every time they name it.
PickedIn(instrs, p) ==
    {<<k, n>> \in (DOMAIN instrs) \X (1 .. 2 * Len(net.packages)) :
        /\ n \in DOMAIN instrs[k].picked_package
        /\ instrs[k].picked_package[n] = p}

\* The same for the package named as dropped.
DroppedIn(instrs, p) ==
    {<<k, n>> \in (DOMAIN instrs) \X (1 .. 2 * Len(net.packages)) :
        /\ n \in DOMAIN instrs[k].dropped_package
        /\ instrs[k].dropped_package[n] = p}

\* C36: in the instruction list of every train, each Pick(p) of the train's
\* history is listed as picked in exactly one instruction and each Drop(p)
\* as dropped in exactly one instruction, the instruction that picks p does
\* not come after the one that drops p, and no package outside the train's
\* history is listed.
C36_InstructionsListHistory ==
    \A i \in DOMAIN train_states :
        LET taken  == train_states[i].taken_actions
            instrs == train_instructions(train_states[i], route_map)
        IN  \A p \in Range(net.packages) :
                /\ Cardinality(PickedIn(instrs, p)) = (IF Contains(taken, Pick(p)) THEN 1 ELSE 0)
                /\ Cardinality(DroppedIn(instrs, p)) = (IF Contains(taken, Drop(p)) THEN 1 ELSE 0)
                /\ \A x \in PickedIn(instrs, p) :
                      \A y \in DroppedIn(instrs, p) : x[1] <= y[1]
                /\ \A k \in DOMAIN instrs :
                      /\ Len(instrs[k].picked_package) <= Len(net.packages)
                      /\ Len(instrs[k].dropped_package) <= 1
                      /\ Range(instrs[k].picked_package) \cup Range(instrs[k].dropped_package)
                             \subseteq {a.package : a \in Range(taken)}

\* C36 witness: a train has picked two packages and dropped both, and its
\* list holds an instruction that drops one of them later than the
\* instruction that picked it, with another instruction in between.
C36_Witness ==
    \E i \in DOMAIN train_states :
        LET taken  == train_states[i].taken_actions
            instrs == train_instructions(train_states[i], route_map)
        IN  /\ Len(taken) = 4
            /\ \E p \in Range(net.packages) :
                   \E x \in PickedIn(instrs, p) :
                       \E y \in DroppedIn(instrs, p) : x[1] + 1 < y[1]

-----------------------------------------------------------------------------
(* Train::take_action by itself.                                           *)

\* C37: Train::take_action(a) called with an action the train cannot take
\* leaves the train's history unchanged; called with an action it can take,
\* it appends exactly that action.
C37_TakeActionAppendsOnlyWhatCanBeTaken ==
    called # NoCall =>
        LET before == called.before
            after  == train_states[called.index]
        IN  /\ after.train = before.train
            /\ IF can_take(before, called.action, route_map)
               THEN after.taken_actions = Append(before.taken_actions, called.action)
               ELSE after.taken_actions = before.taken_actions

\* C37 witness: a train that had taken an action was handed one it cannot
\* take, a Pick beyond its capacity or a Drop of a package it never picked,
\* and its history stayed as it was.
C37_Witness ==
    /\ called # NoCall
    /\ called.before.taken_actions # <<>>
    /\ ~ can_take(called.before, called.action, route_map)
    /\ train_states[called.index] = called.before

=============================================================================
